---- MODULE Spec2Model ----
(***************************************************************************)
(* Model of the translation UI: the session controller of App.tsx (state,  *)
(* debounced translation, swap, speak) and the translation / speech        *)
(* clients and the PCM player of services/geminiService.                   *)
(*                                                                         *)
(* A text is a sequence of characters; " " is the whitespace character.    *)
(* Every event handler is one action: the state updates of the handler,    *)
(* the render they cause and the effect that runs after that render.       *)
(***************************************************************************)
EXTENDS Naturals, Sequences, FiniteSets

\* ------------------------------------------------------------------ bounds
\* translations in flight at the same time
MaxInFlight == 2
\* bytes of a decoded audio payload
MaxBytes == 3

\* ------------------------------------------------------------ the catalog
languages ==
  << [code |-> "en", name |-> "Ingilizce"],
     [code |-> "tr", name |-> "Turkce"],
     [code |-> "de", name |-> "Almanca"],
     [code |-> "fr", name |-> "Fransizca"],
     [code |-> "ar", name |-> "Arapca"],
     [code |-> "it", name |-> "Italyanca"],
     [code |-> "ru", name |-> "Rusca"] >>

CatalogCodes == { languages[i].code : i \in 1..Len(languages) }

\* a lookup that falls back to an entry made of the code it was given
FindLangOrCode(code) ==
  LET hits == { i \in 1..Len(languages) : languages[i].code = code }
  IN  IF hits = {} THEN { [code |-> code, name |-> code] }
      ELSE { languages[CHOOSE i \in hits : \A j \in hits : i <= j] }

\* languages.find(l => l.code === code): the set holding the first match, or {}
FindLang(code) ==
  LET hits == { i \in 1..Len(languages) : languages[i].code = code }
  IN  IF hits = {} THEN {}
      ELSE { languages[CHOOSE i \in hits : \A j \in hits : i <= j] }

\* ------------------------------------------------------------------ texts
WS == " "

RECURSIVE TrimStart(_)
TrimStart(s) ==
  IF s # <<>> /\ Head(s) = WS THEN TrimStart(Tail(s)) ELSE s

RECURSIVE TrimEnd(_)
TrimEnd(s) ==
  IF s # <<>> /\ s[Len(s)] = WS THEN TrimEnd(SubSeq(s, 1, Len(s) - 1)) ELSE s

\* a trim that strips nothing
TrimNothing(s) == s

\* String.prototype.trim
Trim(s) == TrimEnd(TrimStart(s))

\* JavaScript truthiness of a string
Truthy(s) == s # <<>>

\* the fixed error sentence of translateText, "Ceviri hatasi olustu."
ErrorText == << "Ceviri hatasi olustu." >>

\* what the user can have in the source box
TypedTexts == { <<>>, <<WS>>, <<"a">> }
\* what the remote service can answer as translatedText
RemoteTexts == { <<>>, <<"x">> }
\* the codes the user picks from the two menus
LangChoices == { "en", "tr" }
\* the codes the remote service can answer as detectedLanguageCode
RemoteCodes == { "", "en", "tr", "xx" }

\* ------------------------------------------------- the translation client
\* The JSON values a field of the response can hold: JSON.parse checks no
\* schema, so next to a string a field can hold null or a number (v is then
\* its digits).
JsonTexts ==
  { [type |-> "string", v |-> t] : t \in RemoteTexts }
  \cup { [type |-> "null", v |-> <<>>], [type |-> "number", v |-> <<"5">>] }

JsonCodes ==
  { [type |-> "string", v |-> c] : c \in RemoteCodes }
  \cup { [type |-> "null", v |-> ""], [type |-> "number", v |-> "5"] }

\* JavaScript truthiness of such a value (the number is not 0)
JsTruthy(j, empty) ==
  IF j.type = "null" THEN FALSE
  ELSE IF j.type = "string" THEN j.v # empty
  ELSE TRUE

\* A parsed response body: a field is {} when missing, {j} when present.
Bodies ==
  [ translatedText : { {} } \cup { {j} : j \in JsonTexts },
    detectedLanguageCode : { {} } \cup { {j} : j \in JsonCodes } ]

NoBody == [translatedText |-> {}, detectedLanguageCode |-> {}]

\* What the remote service does to one generateContent call of translateText:
\*   "error"   the call rejects
\*   "badjson" response.text is not JSON, or is the JSON text null
\*   "empty"   response.text is empty or missing
\*   "json"    response.text parses to the object body
TranslateResponses ==
  [ kind : {"error", "badjson", "empty"}, body : {NoBody} ]
  \cup [ kind : {"json"}, body : Bodies ]

\* The responses the session is answered with: one for each result
\* translateTextResult can give (a missing and an empty field give the same
\* result, as do the two failures and as do an empty response and an empty
\* object).
SessionResponses ==
  { resp \in TranslateResponses :
      \/ resp.kind = "error"
      \/ /\ resp.kind = "json"
         /\ \A j \in resp.body.translatedText :
              j.type = "string" /\ j.v # <<>>
         /\ \A j \in resp.body.detectedLanguageCode :
              j.type = "string" /\ j.v # "" }

\* whether line 25 (line 61), the read of process.env and new GoogleGenAI(...),
\* returns or throws
CtorOutcomes == { "ok", "throws" }

\* x || d for an optional text field, d a string
OrText(field, d) ==
  IF field = {} THEN [type |-> "string", v |-> d]
  ELSE LET j == CHOOSE x \in field : TRUE
       IN  IF JsTruthy(j, <<>>) THEN j ELSE [type |-> "string", v |-> d]

\* x || d for an optional code field, d a string
OrCode(field, d) ==
  IF field = {} THEN [type |-> "string", v |-> d]
  ELSE LET j == CHOOSE x \in field : TRUE
       IN  IF JsTruthy(j, "") THEN j ELSE [type |-> "string", v |-> d]

\* a TranslationResult whose two fields are the strings t and c
StringResult(t, c) ==
  [translatedText |-> t, detectedLanguageCode |-> c,
   textType |-> "string", codeType |-> "string"]

\* translateText up to its await (lines 23-28): "blank" it returns the empty
\* result, "threw" the constructor threw outside the try, "remote" the
\* remote call is made.
translateTextCall(text, ctor) ==
  IF ~Truthy(Trim(text)) THEN "blank"
  ELSE IF ctor = "throws" THEN "threw"
  ELSE "remote"

\* the result of the early return of line 23
BlankResult(sourceLang) == StringResult(<<>>, sourceLang)

\* translateText from the settling of the remote call on (lines 47-55): the
\* object it returns, textType and codeType the JavaScript types of its two
\* fields
translateTextResult(sourceLang, resp) ==
  IF resp.kind \in {"error", "badjson"}
    THEN StringResult(ErrorText, sourceLang)
  ELSE LET result == IF resp.kind = "empty" THEN NoBody ELSE resp.body
           t == OrText(result.translatedText, <<>>)
           c == OrCode(result.detectedLanguageCode, sourceLang)
       IN  [translatedText |-> t.v, detectedLanguageCode |-> c.v,
            textType |-> t.type, codeType |-> c.type]

\* --------------------------------------------------------- the speech client
\* What the remote service does to one generateContent call of speakText:
\*   "error"   the call rejects
\*   "noaudio" no part carries inlineData, or its data is empty
\*   "audio"   inline data: b64 whether atob accepts it, bytes its decoded
\*             length, ctx whether an AudioContext can be constructed
NoAudio == [b64 |-> FALSE, bytes |-> 0, ctx |-> FALSE]

SpeakResponses ==
  [ kind : {"error", "noaudio"}, audio : {NoAudio} ]
  \cup [ kind : {"audio"},
         audio : {NoAudio, [b64 |-> TRUE, bytes |-> 0, ctx |-> FALSE]}
                 \cup [b64 : {TRUE}, bytes : 0..MaxBytes, ctx : {TRUE}] ]

\* speakText up to its await (lines 59-64)
speakTextCall(text, ctor) ==
  IF ~Truthy(Trim(text)) THEN "blank"
  ELSE IF ctor = "throws" THEN "threw"
  ELSE "remote"

\* playPcmAudio up to source.start() (lines 105-127) on a buffer of nbytes
\* bytes: whether playback started, and whether a context was created and is
\* still open when the function is left.
playPcmAudio(nbytes, ctxOk) ==
  IF ~ctxOk THEN [started |-> FALSE, open |-> FALSE]
  ELSE IF nbytes % 2 # 0 THEN [started |-> FALSE, open |-> TRUE]
  ELSE IF nbytes \div 2 = 0 THEN [started |-> FALSE, open |-> TRUE]
  ELSE [started |-> TRUE, open |-> TRUE]

\* speakText from the settling of the remote call to the await of line 82
\* (lines 77-91): "false" it returns false, "playing" playback has started;
\* leaked tells whether a context was created and left open.
speakTextResult(resp) ==
  IF resp.kind = "error" THEN [ret |-> "false", leaked |-> FALSE]
  ELSE IF resp.kind = "noaudio" THEN [ret |-> "false", leaked |-> FALSE]
  ELSE IF ~resp.audio.b64 THEN [ret |-> "false", leaked |-> FALSE]
  ELSE LET p == playPcmAudio(resp.audio.bytes, resp.audio.ctx)
       IN  IF p.started THEN [ret |-> "playing", leaked |-> FALSE]
           ELSE [ret |-> "false", leaked |-> p.open]

\* ------------------------------------------------------------------ state
VARIABLES
  sourceText, targetText, sourceLang, targetLang, isLoading, isSpeaking,
  mounted,        \* the component is mounted
  debounceTimer,  \* debounceTimer.current: a timer id, 0 for null
  timers,         \* the timers set and neither fired nor cleared
  inflight,       \* the handleTranslate calls awaiting translateText, in the
                  \* order of their dispatch: sLang is the argument read after
                  \* the await, stale marks a call dispatched before one that
                  \* has already resolved
  speech,         \* the speakText calls running: awaiting the remote call, playing
  burst,          \* the current burst of source-text changes
  lastEvent,      \* the handler that ran last, and the code it was answered
  call            \* one call of a client function made on its own

ctl == << sourceText, targetText, sourceLang, targetLang, isLoading >>
sess == << sourceText, targetText, sourceLang, targetLang, isLoading,
           isSpeaking, mounted, debounceTimer, timers, inflight, speech,
           burst, lastEvent >>
vars == << sess, call >>

\* no burst of keystrokes is being followed
NoBurst == [n |-> 0, calls |-> 0, last |-> <<>>]

\* the record of a handler that ran; for a completion, code and text are the
\* detectedLanguageCode and the translatedText of the result, stale tells
\* whether a call dispatched later had resolved before, and was is the source
\* language selected when it ran; for a swap, text is the source text it found
Ev(op) == [op |-> op, code |-> "", stale |-> FALSE, text |-> <<>>, was |-> ""]

\* no client function is called on its own
NoCall == [fn |-> "none"]

\* the state after the first render and its effects (lines 24-40, 64-78)
InitSession ==
  /\ sourceText = <<>>
  /\ targetText = <<>>
  /\ sourceLang = "tr"
  /\ targetLang = "en"
  /\ isLoading = FALSE
  /\ isSpeaking = FALSE
  /\ mounted = TRUE
  /\ debounceTimer = 0
  /\ timers = {}
  /\ inflight = <<>>
  /\ speech = [remote |-> 0, playing |-> 0]
  /\ burst = NoBurst
  /\ lastEvent = Ev("mount")

Init == InitSession /\ call = NoCall

\* ------------------------------------------------------- the debounce effect
\* clearTimeout that clears nothing
ClearTimeoutNothing(pending, id) == pending

\* clearTimeout(id) on the pending timers
ClearTimeout(pending, id) == { t \in pending : t.id # id }

\* setTimeout's return value: an id no pending timer has
FreshId(pending) ==
  CHOOSE i \in 1..(Cardinality(pending) + 1) : \A t \in pending : t.id # i

\* the effect without its cleanup and without line 65
DebounceEffectNoClear(st, sl, tl, tt) ==
  IF Truthy(st)
    THEN LET id == FreshId(timers)
         IN  /\ timers' = timers \cup
                         { [id |-> id, text |-> st, sLang |-> sl, tLang |-> tl] }
             /\ debounceTimer' = id
             /\ targetText' = tt
    ELSE /\ timers' = timers
         /\ debounceTimer' = debounceTimer
         /\ targetText' = <<>>

\* the effect whose callback passes the languages of the render before
DebounceEffectStaleLangs(st, sl, tl, tt) ==
  LET cleared == ClearTimeout(timers, debounceTimer)
  IN  IF Truthy(st)
        THEN LET id == FreshId(cleared)
             IN  /\ timers' = cleared \cup
                             { [id |-> id, text |-> st,
                                sLang |-> sourceLang, tLang |-> targetLang] }
                 /\ debounceTimer' = id
                 /\ targetText' = tt
        ELSE /\ timers' = cleared
             /\ debounceTimer' = debounceTimer
             /\ targetText' = <<>>

\* The effect of lines 64-78 after a render with (st, sl, tl) as the values
\* of sourceText, sourceLang and targetLang, tt the target text of that render.
\* The cleanup of the previous run and line 65 both clear the timer the ref
\* names.
DebounceEffect(st, sl, tl, tt) ==
  LET cleared == ClearTimeout(timers, debounceTimer)
  IN  IF Truthy(st)
        THEN LET id == FreshId(cleared)
             IN  /\ timers' = cleared \cup
                             { [id |-> id, text |-> st, sLang |-> sl, tLang |-> tl] }
                 /\ debounceTimer' = id
                 /\ targetText' = tt
        ELSE /\ timers' = cleared
             /\ debounceTimer' = debounceTimer
             /\ targetText' = <<>>

\* a render whose effect lists the source text as its only dependency
RenderTextOnly(st, tt, sl, tl) ==
  /\ sourceText' = st
  /\ sourceLang' = sl
  /\ targetLang' = tl
  /\ IF st # sourceText
       THEN DebounceEffect(st, sl, tl, tt)
       ELSE /\ targetText' = tt
            /\ UNCHANGED << timers, debounceTimer >>

\* A render that commits (st, tt, sl, tl): the effect runs when one of its
\* dependencies (line 78) changed.
Render(st, tt, sl, tl) ==
  /\ sourceText' = st
  /\ sourceLang' = sl
  /\ targetLang' = tl
  /\ IF << st, sl, tl >> # << sourceText, sourceLang, targetLang >>
       THEN DebounceEffect(st, sl, tl, tt)
       ELSE /\ targetText' = tt
            /\ UNCHANGED << timers, debounceTimer >>

\* ------------------------------------------------------------ user actions
\* The burst of keystrokes: n tells whether one (1) or several (2)
\* source-text changes were made, each while the timer of the previous one
\* was pending; calls counts the handleTranslate calls made for them (none,
\* one, more); last is the text of the latest such call.  It is kept until
\* the step after its timer fired.
\* after the source text changed to st
BurstAfterChange(st) ==
  IF ~Truthy(st) THEN NoBurst
  ELSE IF timers # {} /\ burst.calls = 0 /\ burst.n > 0
    THEN [burst EXCEPT !.n = 2]
    ELSE [n |-> 1, calls |-> 0, last |-> <<>>]

\* after a step that leaves the source text alone
BurstAfterOther == IF burst.calls > 0 THEN NoBurst ELSE burst

\* after a timer fired with text
BurstAfterFire(text) ==
  IF burst.n = 0 THEN NoBurst
  ELSE [burst EXCEPT !.calls = IF burst.calls = 0 THEN 1 ELSE 2, !.last = text]

\* onChange of the textarea (line 192)
SetSourceText(v) ==
  /\ mounted
  /\ v # sourceText
  /\ Render(v, targetText, sourceLang, targetLang)
  /\ burst' = BurstAfterChange(v)
  /\ lastEvent' = Ev("type")
  /\ UNCHANGED << isLoading, isSpeaking, mounted, inflight, speech, call >>

\* a click in the source-language menu (lines 166-169)
SelectSourceLang(c) ==
  /\ mounted
  /\ Render(sourceText, targetText, c, targetLang)
  /\ burst' = BurstAfterOther
  /\ lastEvent' = Ev("selectSource")
  /\ UNCHANGED << isLoading, isSpeaking, mounted, inflight, speech, call >>

\* a click in the target-language menu (lines 250-253)
SelectTargetLang(c) ==
  /\ mounted
  /\ Render(sourceText, targetText, sourceLang, c)
  /\ burst' = BurstAfterOther
  /\ lastEvent' = Ev("selectTarget")
  /\ UNCHANGED << isLoading, isSpeaking, mounted, inflight, speech, call >>

\* swapLanguages (lines 80-85)
SwapLanguages ==
  /\ mounted
  /\ Render(targetText, sourceText, targetLang, sourceLang)
  /\ burst' = IF targetText # sourceText THEN BurstAfterChange(targetText)
                                         ELSE BurstAfterOther
  /\ lastEvent' = [Ev("swap") EXCEPT !.text = sourceText]
  /\ UNCHANGED << isLoading, isSpeaking, mounted, inflight, speech, call >>

\* unmount: the cleanup of the effect (lines 75-77)
Unmount ==
  /\ mounted
  /\ mounted' = FALSE
  /\ timers' = ClearTimeout(timers, debounceTimer)
  /\ burst' = NoBurst
  /\ lastEvent' = Ev("unmount")
  /\ UNCHANGED << ctl, isSpeaking, debounceTimer, inflight, speech, call >>

\* ------------------------------------------------------------- translation
\* handleTranslate(text, sLang, tLang) up to its await (lines 43-50); ctor is
\* what the constructor of line 25 does.  A state update of an unmounted
\* component is dropped.
HandleTranslate(text, sLang, tLang, ctor) ==
  IF ~Truthy(Trim(text))
    THEN /\ targetText' = IF mounted THEN <<>> ELSE targetText
         /\ lastEvent' = Ev("fireBlank")
         /\ UNCHANGED << isLoading, inflight >>
  ELSE /\ isLoading' = IF mounted THEN TRUE ELSE isLoading
       /\ UNCHANGED targetText
       /\ IF translateTextCall(text, ctor) = "threw"
            THEN /\ lastEvent' = Ev("fireThrew")
                 /\ UNCHANGED inflight
            ELSE /\ Len(inflight) < MaxInFlight
                 /\ inflight' = Append(inflight, [sLang |-> sLang, stale |-> FALSE])
                 /\ lastEvent' = Ev("fire")

\* the timer callback of line 69
TimerFire(t, ctor) ==
  /\ t \in timers
  /\ timers' = timers \ {t}
  /\ HandleTranslate(t.text, t.sLang, t.tLang, ctor)
  /\ burst' = BurstAfterFire(t.text)
  /\ UNCHANGED << sourceText, sourceLang, targetLang, isSpeaking, mounted,
                  debounceTimer, speech, call >>

\* the selection without the test of line 55
DetectedSourceLangUnchecked(code, sLang, cur) ==
  IF code # "" /\ code # sLang THEN code ELSE cur

\* The source language handleTranslate selects for a result (lines 53-58);
\* sLang is the argument of the call, cur the language selected now.
DetectedSourceLang(code, sLang, cur) ==
  IF code # "" /\ code # sLang
    THEN LET foundLang == FindLang(code)
         IN  IF foundLang # {} THEN (CHOOSE l \in foundLang : TRUE).code ELSE cur
    ELSE cur

\* the calls in flight once call i has resolved
AfterResolved(calls, i) ==
  [ j \in 1..(Len(calls) - 1) |->
      IF j < i THEN [calls[j] EXCEPT !.stale = TRUE] ELSE calls[j + 1] ]

\* the await of line 50 resolves for the i-th call in flight: lines 52-61
Complete(i, resp) ==
  /\ i \in 1..Len(inflight)
  /\ inflight' = AfterResolved(inflight, i)
  /\ LET r == inflight[i]
         result == translateTextResult(r.sLang, resp)
     IN  /\ lastEvent' = [op |-> "complete",
                          code |-> result.detectedLanguageCode,
                          stale |-> r.stale,
                          text |-> result.translatedText,
                          was |-> sourceLang]
         /\ IF mounted
              THEN /\ Render(sourceText, result.translatedText,
                             DetectedSourceLang(result.detectedLanguageCode,
                                                r.sLang, sourceLang),
                             targetLang)
                   /\ isLoading' = FALSE
              ELSE UNCHANGED << ctl, timers, debounceTimer >>
  /\ burst' = BurstAfterOther
  /\ UNCHANGED << isSpeaking, mounted, speech, call >>

\* ------------------------------------------------------------------ speech
\* the text a speak button passes (lines 200, 282)
SpeakText(side) == IF side = "source" THEN sourceText ELSE targetText

\* the early return without the isSpeaking test
SpeakRejectedBlankOnly(text) == ~Truthy(Trim(text))

\* the early return testing the text without trimming it
SpeakRejectedNoTrim(text) == ~Truthy(text) \/ isSpeaking

\* the early return of handleSpeak (line 94)
SpeakRejected(text) == ~Truthy(Trim(text)) \/ isSpeaking

\* the record of a handleSpeak call: text is the text it was passed
SpeakEv(op, text) == [Ev(op) EXCEPT !.text = text]

\* handleSpeak(text, lang) up to its await (lines 93-98), and through its
\* catch when the constructor of line 61 throws
HandleSpeak(side, ctor) ==
  /\ mounted
  /\ IF SpeakRejected(SpeakText(side))
       THEN /\ lastEvent' = SpeakEv("speakNoop", SpeakText(side))
            /\ UNCHANGED << isSpeaking, speech >>
       ELSE IF speakTextCall(SpeakText(side), ctor) = "threw"
         THEN /\ lastEvent' = SpeakEv("speakThrew", SpeakText(side))
              /\ isSpeaking' = FALSE
              /\ UNCHANGED speech
         ELSE /\ lastEvent' = SpeakEv("speak", SpeakText(side))
              /\ isSpeaking' = TRUE
              /\ speech' = [speech EXCEPT !.remote = speech.remote + 1]
  /\ UNCHANGED << ctl, mounted, debounceTimer, timers, inflight, burst, call >>

\* the settling of the remote call when handleSpeak clears the flag only
\* after a true result
SpeakRespondKeepsFlag(resp) ==
  /\ speech.remote > 0
  /\ LET r == speakTextResult(resp)
     IN  IF r.ret = "playing"
           THEN /\ speech' = [remote |-> speech.remote - 1,
                              playing |-> speech.playing + 1]
                /\ lastEvent' = Ev("playing")
           ELSE /\ speech' = [speech EXCEPT !.remote = speech.remote - 1]
                /\ lastEvent' = Ev(IF r.leaked THEN "speakFalseOpen" ELSE "speakFalse")
  /\ UNCHANGED << ctl, isSpeaking, mounted, debounceTimer, timers, inflight,
                  burst, call >>

\* the remote call of speakText settles (lines 77-91), then lines 99-106
SpeakRespond(resp) ==
  /\ speech.remote > 0
  /\ LET r == speakTextResult(resp)
     IN  IF r.ret = "playing"
           THEN /\ speech' = [remote |-> speech.remote - 1,
                              playing |-> speech.playing + 1]
                /\ lastEvent' = Ev("playing")
                /\ UNCHANGED isSpeaking
           ELSE /\ speech' = [speech EXCEPT !.remote = speech.remote - 1]
                /\ lastEvent' = Ev(IF r.leaked THEN "speakFalseOpen" ELSE "speakFalse")
                /\ isSpeaking' = IF mounted THEN FALSE ELSE isSpeaking
  /\ UNCHANGED << ctl, mounted, debounceTimer, timers, inflight, burst, call >>

\* source.onended (lines 123-126), then lines 83 and 99-102
PlaybackEnded ==
  /\ speech.playing > 0
  /\ speech' = [speech EXCEPT !.playing = speech.playing - 1]
  /\ lastEvent' = Ev("speakTrue")
  /\ isSpeaking' = IF mounted THEN FALSE ELSE isSpeaking
  /\ UNCHANGED << ctl, mounted, debounceTimer, timers, inflight, burst, call >>

\* ------------------------------------------- the client functions on their own
\* the texts a client function is called with
ClientTexts ==
  { <<>>, <<WS>>, <<WS, WS>>, <<"a">>, <<WS, "a">>, <<"a", WS>> }

\* the language codes a client function is called with
ClientCodes == { "en", "tr" }

\* One call of translateText or speakText: its arguments, where it stands
\* (pc), the remote calls it made, whether something failed on the way
\* (failed), whether playback ended (played), whether an AudioContext it
\* created is open (open), the object JSON.parse gave (body), and what it
\* returned: value for translateText, flag for speakText.
NewCall(fn, text, sLang, tLang) ==
  [fn |-> fn, text |-> text, sLang |-> sLang, tLang |-> tLang, pc |-> "start",
   netCalls |-> 0, failed |-> FALSE, played |-> FALSE, open |-> FALSE,
   body |-> NoBody, value |-> BlankResult(""), flag |-> FALSE]

InitClient ==
  /\ InitSession
  /\ call \in
       { NewCall("translateText", t, s, d) :
           t \in ClientTexts, s \in ClientCodes, d \in ClientCodes }
       \cup { NewCall("speakText", t, s, s) : t \in ClientTexts, s \in ClientCodes }

\* translateText(text, sourceLang, targetLang) up to its await
ClientTranslateCall(ctor) ==
  /\ call.fn = "translateText" /\ call.pc = "start"
  /\ LET c == translateTextCall(call.text, ctor)
     IN  call' =
           IF c = "blank"
             THEN [call EXCEPT !.pc = "returned", !.value = BlankResult(call.sLang)]
           ELSE IF c = "threw"
             THEN [call EXCEPT !.pc = "threw", !.failed = TRUE]
           ELSE [call EXCEPT !.pc = "remote", !.netCalls = call.netCalls + 1]
  /\ UNCHANGED sess

\* the remote call of translateText settles
ClientTranslateRespond(resp) ==
  /\ call.fn = "translateText" /\ call.pc = "remote"
  /\ call' = [call EXCEPT !.pc = "returned",
                          !.failed = resp.kind \in {"error", "badjson"},
                          !.body = resp.body,
                          !.value = translateTextResult(call.sLang, resp)]
  /\ UNCHANGED sess

\* speakText(text, langCode) up to its await
ClientSpeakCall(ctor) ==
  /\ call.fn = "speakText" /\ call.pc = "start"
  /\ LET c == speakTextCall(call.text, ctor)
     IN  call' =
           IF c = "blank" THEN [call EXCEPT !.pc = "returned", !.flag = FALSE]
           ELSE IF c = "threw"
             THEN [call EXCEPT !.pc = "threw", !.failed = TRUE]
           ELSE [call EXCEPT !.pc = "remote", !.netCalls = call.netCalls + 1]
  /\ UNCHANGED sess

\* the remote call of speakText settles
ClientSpeakRespond(resp) ==
  /\ call.fn = "speakText" /\ call.pc = "remote"
  /\ LET r == speakTextResult(resp)
     IN  call' =
           IF r.ret = "playing" THEN [call EXCEPT !.pc = "playing", !.open = TRUE]
           ELSE [call EXCEPT !.pc = "returned", !.failed = TRUE, !.flag = FALSE,
                             !.open = r.leaked]
  /\ UNCHANGED sess

\* playback ends: onended closes the context (line 124), playPcmAudio
\* resolves and speakText returns true
ClientPlaybackEnded ==
  /\ call.fn = "speakText" /\ call.pc = "playing"
  /\ call' = [call EXCEPT !.pc = "returned", !.played = TRUE, !.flag = TRUE,
                          !.open = FALSE]
  /\ UNCHANGED sess

\* ---------------------------------------------------------- specifications
\* The translation side of the session.  No action of it reads isSpeaking or
\* speech, and no speech action writes anything else, so what holds of the
\* translation state here holds with speech interleaved.
NextTranslation ==
  \/ \E v \in TypedTexts : SetSourceText(v)
  \/ \E c \in LangChoices : SelectSourceLang(c)
  \/ \E c \in LangChoices : SelectTargetLang(c)
  \/ SwapLanguages
  \/ Unmount
  \/ \E t \in timers : \E ctor \in CtorOutcomes : TimerFire(t, ctor)
  \/ \E i \in 1..Len(inflight) : \E resp \in SessionResponses :
       Complete(i, resp)

SpecTranslation == Init /\ [][NextTranslation]_vars

\* the translation side when the constructor of line 25 never throws
NextTranslationCtorOk ==
  \/ \E v \in TypedTexts : SetSourceText(v)
  \/ \E c \in LangChoices : SelectSourceLang(c)
  \/ \E c \in LangChoices : SelectTargetLang(c)
  \/ SwapLanguages
  \/ Unmount
  \/ \E t \in timers : TimerFire(t, "ok")
  \/ \E i \in 1..Len(inflight) : \E resp \in SessionResponses :
       Complete(i, resp)

SpecTranslationCtorOk == Init /\ [][NextTranslationCtorOk]_vars

\* the whole session
Next ==
  \/ \E v \in TypedTexts : SetSourceText(v)
  \/ \E c \in LangChoices : SelectSourceLang(c)
  \/ \E c \in LangChoices : SelectTargetLang(c)
  \/ SwapLanguages
  \/ Unmount
  \/ \E t \in timers : \E ctor \in CtorOutcomes : TimerFire(t, ctor)
  \/ \E i \in 1..Len(inflight) : \E resp \in SessionResponses :
       Complete(i, resp)
  \/ \E side \in {"source", "target"} : \E ctor \in CtorOutcomes :
       HandleSpeak(side, ctor)
  \/ \E resp \in SpeakResponses : SpeakRespond(resp)
  \/ PlaybackEnded

Spec == Init /\ [][Next]_vars

\* the responses that differ in the text they give and report no language
TextResponses ==
  { resp \in SessionResponses : resp.body.detectedLanguageCode = {} }

\* The speech side of the session, with the handlers that change the two
\* texts.  handleSpeak passes a language that speakText never reads, so the
\* two language menus and the detected language are left out.
NextSpeech ==
  \/ \E v \in TypedTexts : SetSourceText(v)
  \/ SwapLanguages
  \/ Unmount
  \/ \E t \in timers : \E ctor \in CtorOutcomes : TimerFire(t, ctor)
  \/ \E i \in 1..Len(inflight) : \E resp \in TextResponses :
       Complete(i, resp)
  \/ \E side \in {"source", "target"} : \E ctor \in CtorOutcomes :
       HandleSpeak(side, ctor)
  \/ \E resp \in SpeakResponses : SpeakRespond(resp)
  \/ PlaybackEnded

SpecSpeech == Init /\ [][NextSpeech]_vars

\* the client functions called on their own, on every argument of the bounds
NextClient ==
  \/ \E ctor \in CtorOutcomes : ClientTranslateCall(ctor)
  \/ \E resp \in TranslateResponses : ClientTranslateRespond(resp)
  \/ \E ctor \in CtorOutcomes : ClientSpeakCall(ctor)
  \/ \E resp \in SpeakResponses : ClientSpeakRespond(resp)
  \/ ClientPlaybackEnded

SpecClient == InitClient /\ [][NextClient]_vars

\* the session, or a client function called on its own
NextSessionOrClient ==
  \/ call = NoCall /\ \E v \in TypedTexts : SetSourceText(v)
  \/ call = NoCall /\ \E c \in LangChoices : SelectSourceLang(c)
  \/ call = NoCall /\ \E c \in LangChoices : SelectTargetLang(c)
  \/ call = NoCall /\ SwapLanguages
  \/ call = NoCall /\ Unmount
  \/ call = NoCall /\ \E t \in timers : \E ctor \in CtorOutcomes : TimerFire(t, ctor)
  \/ call = NoCall /\ \E i \in 1..Len(inflight) : \E resp \in SessionResponses :
                         Complete(i, resp)
  \/ \E ctor \in CtorOutcomes : ClientTranslateCall(ctor)
  \/ \E resp \in TranslateResponses : ClientTranslateRespond(resp)
  \/ \E ctor \in CtorOutcomes : ClientSpeakCall(ctor)
  \/ \E resp \in SpeakResponses : ClientSpeakRespond(resp)
  \/ ClientPlaybackEnded

SpecSessionOrClient == (Init \/ InitClient) /\ [][NextSessionOrClient]_vars

\* The session once a first translation has completed: "a" was typed, its
\* timer fired, and the call resolved with "x" and the requested language.
InitTranslated ==
  /\ sourceText = <<"a">>
  /\ targetText = <<"x">>
  /\ sourceLang = "tr"
  /\ targetLang = "en"
  /\ isLoading = FALSE
  /\ isSpeaking = FALSE
  /\ mounted = TRUE
  /\ debounceTimer = 1
  /\ timers = {}
  /\ inflight = <<>>
  /\ speech = [remote |-> 0, playing |-> 0]
  /\ burst = NoBurst
  /\ lastEvent = [op |-> "complete", code |-> "tr", stale |-> FALSE,
                  text |-> <<"x">>, was |-> "tr"]
  /\ call = NoCall

\* The speak buttons with the handlers that need no translation to run, from
\* the first render or from a completed translation.  The remote speech call
\* settles and a started playback ends: both are weakly fair, and no action
\* other than themselves disables them.
NextSpeechOnly ==
  \/ \E v \in TypedTexts : SetSourceText(v)
  \/ SwapLanguages
  \/ Unmount
  \/ \E side \in {"source", "target"} : \E ctor \in CtorOutcomes :
       HandleSpeak(side, ctor)
  \/ \E resp \in SpeakResponses : SpeakRespond(resp)
  \/ PlaybackEnded

SpecSpeechFair ==
  /\ Init \/ InitTranslated
  /\ [][NextSpeechOnly]_vars
  /\ WF_vars(\E resp \in SpeakResponses : SpeakRespond(resp))
  /\ WF_vars(PlaybackEnded)

\* The session right after the user's last action, a change of the source
\* text: the timer of that change is pending, and the call dispatched for an
\* earlier text may still be in flight.
InitAfterLastAction ==
  /\ sourceText \in { <<"a">>, <<WS>> }
  /\ targetText \in { <<>>, <<"x">> }
  /\ sourceLang \in LangChoices
  /\ targetLang \in LangChoices
  /\ inflight \in { <<>> } \cup
                   { << [sLang |-> c, stale |-> FALSE] >> : c \in LangChoices }
  /\ isLoading = (inflight # <<>>)
  /\ isSpeaking = FALSE
  /\ mounted = TRUE
  /\ debounceTimer = 1
  /\ timers = { [id |-> 1, text |-> sourceText,
                 sLang |-> sourceLang, tLang |-> targetLang] }
  /\ speech = [remote |-> 0, playing |-> 0]
  /\ burst \in { [n |-> k, calls |-> 0, last |-> <<>>] : k \in {1, 2} }
  /\ lastEvent = Ev("type")
  /\ call = NoCall

\* What runs with no user action: the timer callback and the completions of
\* the calls in flight, the constructor of line 25 returning.
NextUnattended ==
  \/ \E t \in timers : TimerFire(t, "ok")
  \/ \E i \in 1..Len(inflight) : \E resp \in SessionResponses :
       Complete(i, resp)

\* A pending timer fires and every remote call returns: both weakly fair.
SpecUnattended ==
  /\ InitAfterLastAction
  /\ [][NextUnattended]_vars
  /\ WF_vars(\E t \in timers : TimerFire(t, "ok"))
  /\ WF_vars(\E i \in 1..Len(inflight) : \E resp \in SessionResponses :
               Complete(i, resp))

\* --------------------------------------------------------------- properties
\* a text that is empty or holds whitespace only
IsBlankText(s) == \A i \in 1..Len(s) : s[i] = WS

\* the handlers that are a timer callback
FireOps == { "fire", "fireBlank", "fireThrew" }

\* C1: a translation that resolves after one dispatched later has resolved
\* does not change the target text: of two requests A, B with A dispatched
\* first and resolving last, the committed target text is B's.
C1_StaleNeverCommitted ==
  [][ (lastEvent'.op = "complete" /\ lastEvent'.stale)
        => targetText' = targetText ]_vars

\* C2: N >= 1 changes of the source text, each made while the timer of the
\* previous one is pending, lead to exactly one handleTranslate call, made
\* with the final source text: while the burst is open one timer is pending
\* and nothing was dispatched; once its timer fired no timer is left and the
\* one call carried the source text.
C2_OneDispatchPerBurst ==
  burst.n > 0 =>
    \/ burst.calls = 0 /\ Cardinality(timers) = 1
    \/ /\ burst.calls = 1
       /\ timers = {}
       /\ burst.last = sourceText
       /\ lastEvent.op \in FireOps
       /\ lastEvent.op = "fire" =>
            (inflight # <<>> /\ inflight[Len(inflight)].sLang = sourceLang)

\* C2 witness: several changes in one burst, then the single dispatch
C2_Witness ==
  burst.n = 2 /\ burst.calls = 1 /\ lastEvent.op = "fire"

\* C3: after a swap the languages and the texts are the exchanged pre-swap
\* ones, whatever the texts were.
C3_SwapExchanges ==
  [][ lastEvent'.op = "swap" =>
        << sourceLang', targetLang', sourceText', targetText' >>
          = << targetLang, sourceLang, targetText, sourceText >> ]_vars

\* C4: at most one speech operation is in flight, and a Speak request made
\* while isSpeaking holds changes neither the flag nor the operations.
C4_SpeakExclusive ==
  /\ [](speech.remote + speech.playing <= 1)
  /\ [][ (isSpeaking /\ lastEvent'.op \in {"speak", "speakNoop", "speakThrew"})
           => (isSpeaking' = isSpeaking /\ speech' = speech) ]_vars

\* C4 witness: a Speak request on non-blank text was turned away while an
\* operation was in flight
C4_Witness ==
  /\ lastEvent.op = "speakNoop"
  /\ isSpeaking
  /\ ~IsBlankText(sourceText) /\ ~IsBlankText(targetText)
  /\ speech.remote + speech.playing = 1

\* C5: translateText on a non-blank text never throws: it returns, and after
\* any failure it returns the error sentence with the requested sourceLang.
C5_TranslateNeverThrows ==
  (call.fn = "translateText" /\ ~IsBlankText(call.text)
     /\ call.pc \in {"returned", "threw"})
  => /\ call.pc = "returned"
     /\ call.failed =>
          call.value = StringResult(ErrorText, call.sLang)

\* C6: translateText on a blank text returns the empty text with the
\* requested sourceLang and makes no remote call; a timer that fires with a
\* blank text empties the target text, dispatches nothing and leaves the
\* loading flag as it was.
C6_BlankNoNetwork ==
  /\ []( (call.fn = "translateText" /\ IsBlankText(call.text)
            /\ call.pc # "start")
         => /\ call.pc = "returned"
            /\ call.value = StringResult(<<>>, call.sLang)
            /\ call.netCalls = 0 )
  /\ [][ \A t \in timers :
           (t \notin timers' /\ lastEvent'.op \in FireOps /\ IsBlankText(t.text))
           => /\ targetText' = <<>>
              /\ isLoading' = isLoading
              /\ inflight' = inflight ]_vars

\* C6 witness: a timer fired with whitespace while a translation was loading
C6_Witness ==
  /\ lastEvent.op = "fireBlank"
  /\ sourceText = <<WS>>
  /\ targetText = <<>>
  /\ isLoading
  /\ inflight # <<>>

\* C7: a completion sets the source language to the detected code exactly
\* when that code differs from the language selected at completion time and
\* is in the catalog.
C7_DetectedAgainstCurrent ==
  [][ (lastEvent'.op = "complete" /\ mounted) =>
        sourceLang' = IF lastEvent'.code # sourceLang
                           /\ lastEvent'.code \in CatalogCodes
                        THEN lastEvent'.code ELSE sourceLang ]_vars

\* C8: speakText never throws; it returns true only after playback ended,
\* false on a blank text without a remote call, and false after a failure.
C8_SpeakNeverThrows ==
  (call.fn = "speakText" /\ call.pc \in {"returned", "threw"})
  => /\ call.pc = "returned"
     /\ call.flag => call.played
     /\ IsBlankText(call.text) => (~call.flag /\ call.netCalls = 0)
     /\ call.failed => ~call.flag

\* C9: while the source text is empty the target text is empty.
C9_EmptySourceEmptyTarget ==
  (mounted /\ sourceText = <<>>) => targetText = <<>>

\* C10: at most one timer is pending, it is the one the ref names, and none
\* is pending after unmount.
C10_OnePendingTimer ==
  /\ Cardinality(timers) <= 1
  /\ \A t \in timers : t.id = debounceTimer
  /\ ~mounted => timers = {}

\* C10 witness: a language was changed while a timer was pending, and one
\* timer is pending
C10_Witness ==
  /\ lastEvent.op \in {"selectSource", "selectTarget"}
  /\ burst.n > 0
  /\ Cardinality(timers) = 1

\* the timer the effect sets for the values the state has after a step
TimerOfNextState ==
  [id |-> debounceTimer', text |-> sourceText',
   sLang |-> sourceLang', tLang |-> targetLang']

\* C11 as stated: a swap dispatches nothing itself, leaves exactly one timer
\* for the post-swap (sourceText, sourceLang, targetLang) pending when the
\* post-swap source text is non-empty, and no timer when it is empty.
C11_SwapAlwaysSchedules ==
  [][ lastEvent'.op = "swap" =>
        /\ inflight' = inflight
        /\ isLoading' = isLoading
        /\ timers' = IF sourceText' # <<>> THEN {TimerOfNextState} ELSE {} ]_vars

\* C11 amended: a swap dispatches nothing itself; a swap that changes the
\* source text or a language leaves exactly one timer for the post-swap
\* (sourceText, sourceLang, targetLang) pending when the post-swap source
\* text is non-empty and none when it is empty; a swap that changes neither
\* schedules nothing; and the callback of a timer is one handleTranslate
\* call with the language the timer carries.
C11_SwapThroughDebounce ==
  /\ [][ lastEvent'.op = "swap" =>
           /\ inflight' = inflight
           /\ isLoading' = isLoading
           /\ timers' =
                IF << sourceText', sourceLang', targetLang' >>
                     = << sourceText, sourceLang, targetLang >> THEN timers
                ELSE IF sourceText' # <<>> THEN {TimerOfNextState}
                ELSE {} ]_vars
  /\ [][ \A t \in timers :
           (t \notin timers' /\ lastEvent'.op \in FireOps)
           => /\ timers' = {}
              /\ \/ inflight' = inflight
                 \/ inflight' = Append(inflight, [sLang |-> t.sLang,
                                                  stale |-> FALSE]) ]_vars

\* C11 witness: a swap exchanged two different texts while a translation was
\* in flight, and the timer for the new source text is pending
C11_Witness ==
  /\ lastEvent.op = "swap"
  /\ sourceText # <<>>
  /\ targetText # sourceText
  /\ Cardinality(timers) = 1
  /\ inflight # <<>>

\* the handlers that end a speak request which had set the flag
SpeakEndOps == { "speakTrue", "speakFalse", "speakFalseOpen", "speakThrew" }

\* C12: a speaking flag that is set is cleared again while the component is
\* mounted; every handler that ends a speak request (playback ended, a false
\* result, a thrown error) leaves the flag cleared and writes nothing else of
\* the session: no text, language or loading flag changes.
C12_SpeakingEventuallyCleared ==
  /\ (mounted /\ isSpeaking) ~> (~mounted \/ ~isSpeaking)
  /\ [][ (lastEvent'.op \in SpeakEndOps /\ mounted)
           => (~isSpeaking' /\ ctl' = ctl) ]_vars
  /\ [](mounted => (isSpeaking <=> speech.remote + speech.playing = 1))

\* C12 witness: playback of a translated text ended and the flag is cleared
C12_Witness ==
  /\ lastEvent.op = "speakTrue"
  /\ mounted
  /\ ~isSpeaking
  /\ targetText = <<"x">>

HandleSpeakOps == { "speak", "speakNoop", "speakThrew" }

\* C14 as stated: a Speak request on either side made while the target text
\* is empty is a no-op: the flag and the speech operations stay as they
\* were and speakText is not called.
C14_SpeakNoopOnEmptyTarget ==
  [][ (targetText = <<>> /\ lastEvent'.op \in HandleSpeakOps)
        => /\ lastEvent'.op = "speakNoop"
           /\ isSpeaking' = isSpeaking
           /\ speech' = speech ]_vars

\* C14 amended: a Speak request is a no-op exactly when the text of the side
\* it was made on is blank or the speaking flag is set; then the flag and the
\* speech operations stay as they were and speakText is not called.
C14_SpeakNoopOnBlankSide ==
  [][ lastEvent'.op \in HandleSpeakOps =>
        /\ lastEvent'.text \in {sourceText, targetText}
        /\ IF IsBlankText(lastEvent'.text) \/ isSpeaking
             THEN /\ lastEvent'.op = "speakNoop"
                  /\ isSpeaking' = isSpeaking
                  /\ speech' = speech
             ELSE lastEvent'.op # "speakNoop" ]_vars

\* C14 witness: a Speak request on a whitespace-only source text was turned
\* away with no operation in flight
C14_Witness ==
  /\ lastEvent.op = "speakNoop"
  /\ lastEvent.text = <<WS>>
  /\ sourceText = <<WS>>
  /\ ~isSpeaking
  /\ speech.remote + speech.playing = 0

\* C15: once speakText has returned, true or false, no AudioContext created
\* by that call is open, and it returned true only after playback had ended.
C15_ContextReleased ==
  (call.fn = "speakText" /\ call.pc = "returned")
  => (~call.open /\ (call.flag => call.played))

\* a field of a parsed body that is missing, null or the empty string
FieldAbsent(field, empty) ==
  \A j \in field : j.type = "null" \/ (j.type = "string" /\ j.v = empty)

\* C16: the result translateText returns for a response that was parsed has
\* a string in both fields: the empty string for a translatedText that is
\* missing or empty, the requested sourceLang for a detectedLanguageCode that
\* is missing or empty, both for an empty response.
C16_ResultFieldsAreStrings ==
  (call.fn = "translateText" /\ call.pc = "returned" /\ call.netCalls = 1
     /\ ~call.failed)
  => /\ call.value.textType = "string"
     /\ call.value.codeType = "string"
     /\ FieldAbsent(call.body.translatedText, <<>>)
          => call.value.translatedText = <<>>
     /\ FieldAbsent(call.body.detectedLanguageCode, "")
          => call.value.detectedLanguageCode = call.sLang

\* C17: while the component is mounted the loading flag is set exactly when
\* a dispatched translation has not completed yet.
C17_LoadingTracksInFlight ==
  mounted => (isLoading <=> inflight # <<>>)

\* no timer is pending, no translation is in flight, the loading flag is clear
Quiescent == timers = {} /\ inflight = <<>> /\ ~isLoading

\* C18: with no further user action the session reaches a quiescent state
\* and stays in it, whatever the remote service answers.
C18_Quiescence == <>[]Quiescent

C20_SwapInvolution ==
  [][ (lastEvent.op = "swap" /\ lastEvent'.op = "swap") =>
        << sourceLang', targetLang', sourceText', targetText' >>
          = << targetLang, sourceLang, lastEvent.text, sourceText >> ]_vars

\* C21: the selected source and target languages are codes of the catalog,
\* whatever was selected, swapped or detected.
C21_LangsInCatalog ==
  sourceLang \in CatalogCodes /\ targetLang \in CatalogCodes

\* C21 witness: after the languages were exchanged, a completion reported a
\* code outside the catalog and the source language stayed what it was
C21_Witness ==
  /\ lastEvent.op = "complete"
  /\ lastEvent.code = "xx"
  /\ mounted
  /\ lastEvent.was = sourceLang
  /\ sourceLang = "en"
  /\ targetLang = "tr"

====
